---------------------------- MODULE Spec2Model ----------------------------
(***************************************************************************)
(* A model of synckr (src/synckr/synckr.go): the run of Process, which     *)
(* reads the remote inventory (RetrieveFromFlickr), optionally deletes     *)
(* duplicates (DeleteDupes), walks the local photo library and uploads the *)
(* files it decides are missing (UploadPhoto), updating the in-memory      *)
(* snapshot fromFlickr as it goes.                                         *)
(*                                                                         *)
(* Titles and photo names are drawn from 1..MaxTitle: the code only ever   *)
(* compares them with <, >= and ==, so a totally ordered set stands for    *)
(* the strings.  Remote identifiers are tuples <<"set", n>> / <<"ph", n>>; *)
(* the empty string "" used as "no album id" is the empty tuple.           *)
(***************************************************************************)
EXTENDS Naturals, Sequences, FiniteSets, TLC

\* ------------------------------------------------------------------ bounds
\* Titles and photo names are 1..MaxTitle.
MaxTitle == 3
\* Spec: the files of the library, the albums and the photos of the remote.
MaxFiles == 2
MaxAlbums == 1
MaxRemotePhotos == 2
\* SpecReader: the same, for the claims about the inventory read.
ReaderFiles == 1
ReaderAlbums == 2
ReaderPhotos == 3
\* SpecRerun: the same, for two runs in succession.
RerunFiles == 1
RerunAlbums == 1
RerunPhotos == 1
\* SpecScan: the same, for the claims about the walk of the local tree.
ScanFiles == 2
ScanAlbums == 1
ScanPhotos == 1
\* the run against a remote whose albums share photos
SharedFiles == 1
SharedPhotos == 2
\* the run over a library with directories of one base name
DirsFiles == 2
DirsAlbums == 1
DirsPhotos == 1
\* The number of photos the remote returns per page.
PageSize == 1
\* config.UploadAttempts and config.RetrieveAttempts (5 by default).
UploadAttempts == 2
RetrieveAttempts == 1

Titles == 1..MaxTitle
AlbumNames == {"A", "B"}
EmptyID == <<>>

\* ------------------------------------------------------------- variables
VARIABLES
    config,           \* the Config record handed to Process
    files,            \* the regular files of the local tree, in walk order
    remote,           \* the remote service: its albums, in listing order
    loose,            \* remote photos uploaded but placed in no album
    nextPhoto,        \* the remote's next photo id
    nextSet,          \* the remote's next album id
    pc,               \* where Process stands
    fromFlickr,       \* the snapshot: album title -> FlickrPhotoset
    items,            \* respSetList.Photosets.Items, as listed
    psIdx,            \* the album RetrieveFromFlickr is reading
    currentPage,      \* RetrieveFromFlickr: currentPage
    photolist,        \* RetrieveFromFlickr: photolist
    nbAttempts,       \* RetrievePageFromFlickr: nbAttempts
    walkIdx,          \* the file the walk is visiting
    destinationAlbum, \* Process: destinationAlbum of the current file
    attemptNb,        \* Process: attemptNb of the current file
    cur,              \* what the run did for the current file so far
    hist,             \* what the run did for each file already visited
    deleted,          \* the photo ids DeleteDupes asked the remote to delete
    readClean,        \* every page request so far was answered with the page
    reads,            \* what the reader asked the remote and what it got
    run,              \* 1 in the first run of Process, 2 in the second
    firstRun,         \* what the first run left, once a second one has started
    calls,            \* the remote calls of the last step and of the steps before
    boot              \* the start of the program: configuration file and logger

vars == <<config, files, remote, loose, nextPhoto, nextSet, pc, fromFlickr,
          items, psIdx, currentPage, photolist, nbAttempts, walkIdx,
          destinationAlbum, attemptNb, cur, hist, deleted, readClean, reads,
          run, firstRun, calls, boot>>

\* ---------------------------------------------------------------- helpers
Min(a, b) == IF a < b THEN a ELSE b

Last(s) == s[Len(s)]

\* All sequences over S of length at most n.
SeqUpTo(S, n) == UNION {[1..k -> S] : k \in 0..n}

FlickrPhoto(id, title) == [ID |-> id, Title |-> title]

FlickrPhotoset(id, photos) == [ID |-> id, Photos |-> photos]

\* FlickrPhotosByTitle.Less
Less(a, i, j) == a[i].Title < a[j].Title

\* FlickrPhotosByTitle.Swap
Swap(a, i, j) == [a EXCEPT ![i] = a[j], ![j] = a[i]]

\* sort.Sort on fewer than 7 elements is the library's insertion sort:
\* for i := a+1; i < b; i++ { for j := i; j > a && Less(j, j-1); j-- { Swap(j, j-1) } }
RECURSIVE SinkDown(_, _)
SinkDown(a, j) ==
    IF j > 1 /\ Less(a, j, j - 1) THEN SinkDown(Swap(a, j, j - 1), j - 1) ELSE a

RECURSIVE InsertionSort(_, _)
InsertionSort(a, i) ==
    IF i > Len(a) THEN a ELSE InsertionSort(SinkDown(a, i), i + 1)

\* Faulty variant: the album is stored as read, without the sort.
SortByTitleSkipped(photos) == photos

SortByTitle(photos) == InsertionSort(photos, 2)

\* The predicate handed to sort.Search: Photos[i].Title >= photoName
\* (i is the 0-based index of the code).
\* Faulty variant: the search predicate with > for >=.
TitleAtLeastStrict(photos, i, photoName) == photos[i + 1].Title > photoName

TitleAtLeast(photos, i, photoName) == photos[i + 1].Title >= photoName

\* sort.Search(n, f): i, j := 0, n; for i < j { h := (i+j)/2;
\*   if !f(h) { i = h + 1 } else { j = h } }; return i
RECURSIVE SearchLoop(_, _, _, _)
SearchLoop(photos, photoName, i, j) ==
    IF i < j
    THEN LET h == (i + j) \div 2
         IN  IF ~TitleAtLeast(photos, h, photoName)
             THEN SearchLoop(photos, photoName, h + 1, j)
             ELSE SearchLoop(photos, photoName, i, h)
    ELSE i

\* Faulty variant: the search starts one position too far.
SearchPhotoFromOne(photos, photoName) ==
    IF Len(photos) = 0 THEN 0 ELSE SearchLoop(photos, photoName, 1, Len(photos))

SearchPhoto(photos, photoName) == SearchLoop(photos, photoName, 0, Len(photos))

\* strings.ToLower over the extensions of the model
ToLower(e) == CASE e = ".JPG" -> ".jpg" [] OTHER -> e

\* filepath.Clean, as filepath.Walk applies it to the root it is given
Clean(p) == IF p = "lib/" THEN "lib" ELSE p

\* filepath.Dir(path) of a file, as the list of its components
DirOf(f) == <<Clean(config.PhotoLibraryPath)>> \o f.dir

\* Faulty variant: the album name is the directory's first component below
\* the root.
CurrentDirTop(f) == DirOf(f)[Min(2, Len(DirOf(f)))]

\* filepath.Base(filepath.Dir(path)): the album name of a file
CurrentDir(f) == Last(DirOf(f))

\* strings.Split(filepath.Base(path), ".")[0]
PhotoName(f) == f.name

\* Faulty variant: only the directory that holds the file is looked up in
\* the skip list.
PrunedParentOnly(f) == CurrentDir(f) \in config.SkipDirs

\* The walk function returns filepath.SkipDir for a directory whose base name
\* is in the skip list: the walk never reaches a file below such a directory.
Pruned(f) == \E k \in 1..Len(DirOf(f)) : DirOf(f)[k] \in config.SkipDirs

IsRootDir(f) == DirOf(f) = <<config.PhotoLibraryPath>>

IsAllowedExt(f) == \E e \in config.Extensions : ToLower(f.ext) = e

Eligible(f) == IsAllowedExt(f) /\ ~IsRootDir(f)

AlbumPresent(name) == name \in DOMAIN fromFlickr

\* Faulty variant: the entry found is compared with the photo name, and the photo is
\* still appended at the end of the album.
UploadNeededExact(f) ==
    IF AlbumPresent(CurrentDir(f))
    THEN LET photos == fromFlickr[CurrentDir(f)].Photos
             phi == SearchPhoto(photos, PhotoName(f))
         IN  phi = Len(photos) \/ photos[phi + 1].Title # PhotoName(f)
    ELSE TRUE

\* uploadNeeded, as Process decides it for an eligible file
UploadNeeded(f) ==
    IF AlbumPresent(CurrentDir(f))
    THEN LET photos == fromFlickr[CurrentDir(f)].Photos
         IN  SearchPhoto(photos, PhotoName(f)) = Len(photos)
    ELSE TRUE

\* Faulty variant: destinationAlbum keeps its initial value "".
DestinationUnset(f) == EmptyID

\* destinationAlbum, as Process sets it for a file that needs an upload
Destination(f) ==
    IF AlbumPresent(CurrentDir(f)) THEN fromFlickr[CurrentDir(f)].ID ELSE EmptyID

\* The photos of fromFlickr[name], nil when the album is absent
PhotosOf(name) == IF AlbumPresent(name) THEN fromFlickr[name].Photos ELSE <<>>

\* ------------------------------------------------------------- the remote
\* The page `page` (from 1) of a remote album's photos.
PageOf(photos, page) ==
    SubSeq(photos, (page - 1) * PageSize + 1, Min(page * PageSize, Len(photos)))

RemoteAlbum(id) == CHOOSE k \in 1..Len(remote) : remote[k].id = id

RemotePhotosOf(id) ==
    IF \E k \in 1..Len(remote) : remote[k].id = id
    THEN remote[RemoteAlbum(id)].photos
    ELSE <<>>

\* The remote after deleting the photos whose ids are in `ids`.
RemoteWithout(ids) ==
    [k \in 1..Len(remote) |->
        [remote[k] EXCEPT !.photos =
            SelectSeq(remote[k].photos, LAMBDA p : p.ID \notin ids)]]


\* Faulty variant: an assignment to a key the map holds is dropped.
PutIfAbsent(m, k, v) ==
    [x \in (DOMAIN m) \cup {k} |-> IF x \in DOMAIN m THEN m[x] ELSE v]

\* fromFlickr[k] = v, as Go's map assignment
Put(m, k, v) == [x \in (DOMAIN m) \cup {k} |-> IF x = k THEN v ELSE m[x]]

EmptyMap == [x \in {} |-> x]

\* ------------------------------------------------------------------- Init
\* The remote before the run: at most MaxAlbums albums holding at most
\* MaxRemotePhotos photos in all, in any order and with any titles.
RemoteOf(names, titles) ==
    [k \in 1..Len(names) |->
        [id |-> <<"set", k>>, title |-> names[k],
         photos |-> [j \in 1..Len(titles[k]) |->
                        FlickrPhoto(<<"ph", k, j>>, titles[k][j])]]]

RECURSIVE TotalLen(_)
TotalLen(ss) == IF ss = <<>> THEN 0 ELSE Len(ss[1]) + TotalLen(Tail(ss))

RemoteInits(maxAlbums, maxPhotos) ==
    {RemoteOf(names, titles) :
        <<names, titles>> \in
            {nt \in SeqUpTo(AlbumNames, maxAlbums)
                      \X SeqUpTo(SeqUpTo(Titles, maxPhotos), maxAlbums) :
                /\ Len(nt[1]) = Len(nt[2])
                /\ TotalLen(nt[2]) <= maxPhotos}}

\* LoadConfiguration's defaults for the lists; the library path and the
\* duplicate-deletion option are the user's.
Configs ==
    [PhotoLibraryPath : {"", "lib"},
     SkipDirs : {{"@eaDir"}},
     Extensions : {{".png", ".jpg", ".jpeg"}},
     DeleteDupes : BOOLEAN]

\* The regular files a library may hold: photos in the album directories,
\* a photo directly in the root and a file that is no photo.
LocalFiles ==
    [dir : {<<"A">>, <<"B">>}, name : Titles, ext : {".jpg"}]
        \cup {[dir |-> <<>>, name |-> 1, ext |-> ".jpg"],
              [dir |-> <<"A">>, name |-> MaxTitle, ext |-> ".txt"]}

\* The zero value of a FlickrPhotoset: what fromFlickr[name] reads for an
\* album that is not in the map.
NoAlbum == FlickrPhotoset(EmptyID, <<>>)

\* fromFlickr[name] of the map m, as Go reads it
AlbumEntry(m, name) == IF name \in DOMAIN m THEN m[name] ELSE NoAlbum

\* What the run records while it handles one file: the UploadPhoto calls made,
\* the sleeps taken, the failed calls, the files uploaded, the destinations
\* passed, and the album's entry when the file was decided.
NoFile == [attempts |-> 0, sleeps |-> 0, failures |-> 0, uploads |-> 0,
           creates |-> 0, appends |-> 0, ids |-> <<>>,
           dests |-> {}, present |-> FALSE, before |-> NoAlbum]

\* What the run records of its remote calls: the kinds of calls the last step
\* made and the kinds made before it.
NoCalls == [now |-> {}, past |-> {}]

Called(kinds) == [now |-> kinds, past |-> calls.past \cup calls.now]

\* The program has a library of its own to synchronise: its start is over.
NoBoot == [pc |-> "run"]

\* What the run records of the reader: how the album listing ended, the
\* GetPhotos calls and the sleeps made for the page being read, and the last
\* answer of GetPhotos.
NoRead == [listed |-> "no", fetches |-> 0, sleeps |-> 0, got |-> <<>>,
           err |-> FALSE]

InitRun ==
    /\ loose = {}
    /\ nextPhoto = 1
    /\ nextSet = Len(remote) + 1
    /\ pc = "start"
    /\ fromFlickr = EmptyMap
    /\ items = <<>>
    /\ psIdx = 0
    /\ currentPage = 0
    /\ photolist = <<>>
    /\ nbAttempts = 0
    /\ walkIdx = 0
    /\ destinationAlbum = EmptyID
    /\ attemptNb = 0
    /\ cur = NoFile
    /\ hist = <<>>
    /\ deleted = {}
    /\ readClean = TRUE
    /\ reads = NoRead
    /\ run = 1
    /\ firstRun = <<>>
    /\ calls = NoCalls

Init ==
    /\ boot = NoBoot
    /\ config \in Configs
    /\ files \in SeqUpTo(LocalFiles, MaxFiles)
    /\ remote \in RemoteInits(MaxAlbums, MaxRemotePhotos)
    /\ InitRun

InitReader ==
    /\ boot = NoBoot
    /\ config \in Configs
    /\ files \in SeqUpTo(LocalFiles, ReaderFiles)
    /\ remote \in RemoteInits(ReaderAlbums, ReaderPhotos)
    /\ InitRun

\* ---------------------------------------------------------------- Process
\* Faulty variant: the library path is not looked at before the reader is
\* called.
StartOutcomeUnchecked(path) == "list"

\* Where Process goes from its entry: log.Fatal on an empty library path,
\* else on to RetrieveFromFlickr.
StartOutcome(path) == IF path = "" THEN "fatal" ELSE "list"

\* Process, up to the call of RetrieveFromFlickr: an empty library path is fatal.
ProcessStart ==
    /\ pc = "start"
    /\ pc' = StartOutcome(config.PhotoLibraryPath)
    /\ calls' = Called({})
    /\ UNCHANGED <<config, files, remote, loose, nextPhoto, nextSet, fromFlickr,
                   items, psIdx, currentPage, photolist, nbAttempts, walkIdx,
                   destinationAlbum, attemptNb, cur, hist, deleted, readClean,
                   reads, run, firstRun, boot>>

\* Faulty variant: an error of photosets.GetList is logged and the run goes
\* on with no album.
ListOutcomeLogged(err, n) == IF err \/ n = 0 THEN "dedupe" ELSE "page"

\* Where RetrieveFromFlickr goes after photosets.GetList answered with n
\* albums: log.Fatal on an error, else the first album, if any.
ListOutcome(err, n) ==
    IF err THEN "fatal" ELSE IF n = 0 THEN "dedupe" ELSE "page"

\* RetrieveFromFlickr: photosets.GetList and the start of the first album.
ListAlbums ==
    /\ pc = "list"
    /\ \E err \in BOOLEAN :
        /\ reads' = [reads EXCEPT !.listed = IF err THEN "error" ELSE "ok"]
        /\ calls' = Called({"listAlbums"})
        /\ pc' = ListOutcome(err, Len(remote))
        /\ IF err
           THEN UNCHANGED <<items, psIdx, currentPage>>
           ELSE /\ items' = [k \in 1..Len(remote) |->
                               [Id |-> remote[k].id, Title |-> remote[k].title]]
                /\ psIdx' = 1
                /\ currentPage' = 1
    /\ UNCHANGED <<config, files, remote, loose, nextPhoto, nextSet, fromFlickr,
                   photolist, nbAttempts, walkIdx, destinationAlbum, attemptNb,
                   cur, hist, deleted, readClean, run, firstRun, boot>>

\* Faulty variant: an empty page is asked for again without a bound.
RetryPageUnbounded(photos, n) == Len(photos) = 0

\* The loop condition of RetrievePageFromFlickr.
RetryPage(photos, n) == Len(photos) = 0 /\ n < RetrieveAttempts

\* Faulty variant: the album is stored as it was before its pages were read.
LoadedAlbumEmpty(id, photos) == FlickrPhotoset(id, <<>>)

\* The album RetrieveFromFlickr stores once an album's pagination has ended.
LoadedAlbum(id, photos) == FlickrPhotoset(id, SortByTitle(photos))

\* One photosets.GetPhotos call of RetrievePageFromFlickr and what follows it
\* up to the next call: the retry of an empty page (which logs err.Error(),
\* a nil dereference when the page came back empty without an error), the
\* return of the page to RetrieveFromFlickr, which either accumulates it and
\* asks for the next page, or sorts and stores the album and moves on.
GetPhotos ==
    /\ pc = "page"
    /\ LET real == PageOf(RemotePhotosOf(items[psIdx].Id), currentPage)
       IN \E photos \in {real, <<>>}, err \in BOOLEAN :
        /\ readClean' = (readClean /\ photos = real)
        /\ calls' = Called({"listAlbumPhotos"})
        /\ IF RetryPage(photos, nbAttempts)
           THEN /\ pc' = IF err THEN "page" ELSE "panic"
                /\ nbAttempts' = IF err THEN nbAttempts + 1 ELSE nbAttempts
                /\ reads' = [reads EXCEPT !.fetches = @ + 1,
                                          !.sleeps = @ + (IF err THEN 1 ELSE 0),
                                          !.got = photos, !.err = err]
                /\ UNCHANGED <<fromFlickr, psIdx, currentPage, photolist>>
           ELSE IF Len(photos) > 0
           THEN /\ photolist' = photolist \o photos
                /\ currentPage' = currentPage + 1
                /\ nbAttempts' = 0
                /\ reads' = [reads EXCEPT !.fetches = 0, !.sleeps = 0,
                                          !.got = photos, !.err = err]
                /\ UNCHANGED <<pc, fromFlickr, psIdx>>
           ELSE /\ fromFlickr' = Put(fromFlickr, items[psIdx].Title,
                                     LoadedAlbum(items[psIdx].Id, photolist))
                /\ photolist' = <<>>
                /\ nbAttempts' = 0
                /\ currentPage' = 1
                /\ psIdx' = psIdx + 1
                /\ reads' = [reads EXCEPT !.fetches = 0, !.sleeps = 0,
                                          !.got = photos, !.err = err]
                /\ pc' = IF psIdx < Len(items) THEN "page" ELSE "dedupe"
    /\ UNCHANGED <<config, files, remote, loose, nextPhoto, nextSet, items,
                   walkIdx, destinationAlbum, attemptNb, cur, hist, deleted,
                   run, firstRun, boot>>

\* Faulty variant: of two photos with one title the earlier one is deleted.
DupesEarlier ==
    UNION {{fromFlickr[n].Photos[i - 1].ID :
                i \in {k \in 2..Len(fromFlickr[n].Photos) :
                          fromFlickr[n].Photos[k].Title
                            = fromFlickr[n].Photos[k - 1].Title}} :
           n \in DOMAIN fromFlickr}

\* The ids DeleteDupes hands to photos.Delete: every photo whose title is
\* that of the photo before it in its album.
Dupes ==
    UNION {{fromFlickr[n].Photos[i].ID :
                i \in {k \in 2..Len(fromFlickr[n].Photos) :
                          fromFlickr[n].Photos[k].Title
                            = fromFlickr[n].Photos[k - 1].Title}} :
           n \in DOMAIN fromFlickr}

\* Faulty variant: DeleteDupes is called whatever the option says.
DedupeWantedAlways == TRUE

\* Process: the condition under which DeleteDupes is called.
DedupeWanted == config.DeleteDupes

\* Faulty variant: DeleteDupes drops from the snapshot the photos it asked
\* the remote to delete.
SnapshotAfterDedupeDropped(ids) ==
    [n \in DOMAIN fromFlickr |->
        FlickrPhotoset(fromFlickr[n].ID,
                       SelectSeq(fromFlickr[n].Photos, LAMBDA p : p.ID \notin ids))]

\* The snapshot once DeleteDupes has asked for the deletion of `ids`: the
\* function only reads the map it is handed.
SnapshotAfterDedupe(ids) == fromFlickr

\* Process: DeleteDupes when the option is set.  A delete call may fail; its
\* result is ignored.  (The reader has returned: its record of the page in
\* hand is dropped.)
DeleteDupes ==
    /\ pc = "dedupe"
    /\ IF DedupeWanted
       THEN /\ deleted' = Dupes
            /\ \E done \in SUBSET Dupes : remote' = RemoteWithout(done)
            /\ fromFlickr' = SnapshotAfterDedupe(Dupes)
       ELSE UNCHANGED <<deleted, remote, fromFlickr>>
    /\ reads' = [NoRead EXCEPT !.listed = reads.listed]
    /\ calls' = Called(IF DedupeWanted /\ Dupes # {} THEN {"deletePhoto"} ELSE {})
    /\ pc' = "stat"
    /\ UNCHANGED <<config, files, loose, nextPhoto, nextSet, items,
                   psIdx, currentPage, photolist, nbAttempts, walkIdx,
                   destinationAlbum, attemptNb, cur, hist, readClean, run,
                   firstRun, boot>>

\* Process: os.Stat of the library path; any error is fatal.
StatLibrary ==
    /\ pc = "stat"
    /\ \E ok \in BOOLEAN : pc' = IF ok THEN "walk" ELSE "fatal"
    /\ walkIdx' = 1
    /\ calls' = Called({})
    /\ UNCHANGED <<config, files, remote, loose, nextPhoto, nextSet, fromFlickr,
                   items, psIdx, currentPage, photolist, nbAttempts,
                   destinationAlbum, attemptNb, cur, hist, deleted, readClean,
                   reads, run, firstRun, boot>>


\* What the run records of a visited file.
\* (`after` is the snapshot once the file has been handled.)
Entry(f, outcome, c, albumID, photoID, after) ==
    [outcome |-> outcome, album |-> CurrentDir(f), title |-> PhotoName(f),
     dir |-> f.dir, ext |-> f.ext,
     attempts |-> c.attempts, sleeps |-> c.sleeps, failures |-> c.failures,
     uploads |-> c.uploads, creates |-> c.creates, appends |-> c.appends,
     ids |-> c.ids, dests |-> c.dests, present |-> c.present,
     before |-> c.before, albumID |-> albumID, photoID |-> photoID,
     after |-> AlbumEntry(after, CurrentDir(f)),
     presentAfter |-> CurrentDir(f) \in DOMAIN after]

\* Faulty variant: the album of the file is read again from the remote before
\* the file is decided.
LookupCallsRemote(f) ==
    IF Pruned(f) \/ ~Eligible(f) THEN {} ELSE {"listAlbumPhotos"}

\* The remote calls the walk function makes to decide on a file: none, the
\* album is looked up in the snapshot.
LookupCalls(f) == {}

\* The walk function of Process on one regular file, up to the first call of
\* UploadPhoto: a file below a pruned directory is never reached; a file in
\* the root or with another extension is passed over; for the others the
\* snapshot decides between skipping and uploading.
Visit ==
    /\ pc = "walk"
    /\ walkIdx <= Len(files)
    /\ LET f == files[walkIdx]
           seen == [NoFile EXCEPT !.present = CurrentDir(f) \in DOMAIN fromFlickr,
                                  !.before = AlbumEntry(fromFlickr, CurrentDir(f))]
       IN /\ calls' = Called(LookupCalls(f))
          /\ IF Pruned(f) \/ ~Eligible(f) \/ ~UploadNeeded(f)
             THEN /\ hist' = Append(hist,
                        Entry(f, IF Pruned(f) THEN "pruned"
                                 ELSE IF ~Eligible(f) THEN "ineligible"
                                 ELSE "skipped",
                              seen, EmptyID, EmptyID, fromFlickr))
                  /\ walkIdx' = walkIdx + 1
                  /\ UNCHANGED <<pc, destinationAlbum, attemptNb, cur>>
             ELSE /\ pc' = "upload"
                  /\ destinationAlbum' = Destination(f)
                  /\ attemptNb' = 0
                  /\ cur' = seen
                  /\ UNCHANGED <<hist, walkIdx>>
    /\ UNCHANGED <<config, files, remote, loose, nextPhoto, nextSet, fromFlickr,
                   items, psIdx, currentPage, photolist, nbAttempts, deleted,
                   readClean, reads, run, firstRun, boot>>

\* Faulty variant: the album is created or extended even when the upload
\* of the file failed.
UploadCallsAlways(upOK, dest) ==
    {"upload"} \cup (IF dest = EmptyID THEN {"create"} ELSE {"append"})

\* The remote calls of one UploadPhoto call: flickr.UploadFile and, when it
\* succeeded, CreateAlbum for the destination "" and
\* AppendPhotoIntoExistingAlbum for any other.
UploadCalls(upOK, dest) ==
    {"upload"} \cup (IF ~upOK THEN {}
                     ELSE IF dest = EmptyID THEN {"create"} ELSE {"append"})

\* The album id UploadPhoto returns.
ReturnedAlbum(dest, upOK, placeOK) ==
    IF upOK /\ dest = EmptyID
    THEN IF placeOK THEN <<"set", nextSet>> ELSE EmptyID
    ELSE dest

\* The remote after one UploadPhoto call for the file f.
RemoteAfter(f, dest, upOK, placeOK, photo) ==
    IF ~(upOK /\ placeOK) THEN remote
    ELSE IF dest = EmptyID
    THEN Append(remote, [id |-> <<"set", nextSet>>, title |-> CurrentDir(f),
                         photos |-> <<photo>>])
    ELSE [k \in 1..Len(remote) |->
            IF remote[k].id = dest
            THEN [remote[k] EXCEPT !.photos = Append(@, photo)]
            ELSE remote[k]]

\* Faulty variant: the retry loop stops one attempt early.
RetryUploadEarly(err, n) == err /\ n + 1 < UploadAttempts

\* Faulty variant: the retry loop allows one attempt more.
RetryUploadOneMore(err, n) == err /\ n <= UploadAttempts

\* The loop condition of the retry loop of Process.
RetryUpload(err, n) == err /\ n < UploadAttempts

\* Faulty variant: a photo that could not be placed is deleted again.
LooseAfterCleanup(upOK, placeOK, photoID) == loose

\* The photos the remote holds outside every album after one UploadPhoto
\* call: a photo uploaded but not placed stays where it is.
LooseAfter(upOK, placeOK, photoID) ==
    IF upOK /\ ~placeOK THEN loose \cup {photoID} ELSE loose

\* Faulty variant: the snapshot's album is replaced by the uploaded photo.
SnapshotAfterAlone(name, albumID, photoID, photoName) ==
    Put(fromFlickr, name,
        FlickrPhotoset(albumID, <<FlickrPhoto(photoID, photoName)>>))

\* Faulty variant: the upload is not recorded in the snapshot.
SnapshotAfterUnrecorded(name, albumID, photoID, photoName) == fromFlickr

\* Faulty variant: the album id UploadPhoto returned is not recorded.
SnapshotAfterKeepID(name, albumID, photoID, photoName) ==
    Put(fromFlickr, name,
        FlickrPhotoset(AlbumEntry(fromFlickr, name).ID,
                       Append(PhotosOf(name), FlickrPhoto(photoID, photoName))))

\* The snapshot after a successful upload.
SnapshotAfter(name, albumID, photoID, photoName) ==
    Put(fromFlickr, name,
        FlickrPhotoset(albumID, Append(PhotosOf(name), FlickrPhoto(photoID, photoName))))

\* Faulty variant: the walk function returns the error of the upload, which
\* ends the walk.
AfterUploadAbort(err) == IF err THEN "done" ELSE "walk"

\* Where the run goes once a file's uploads are over: the walk function
\* returns the error the walk handed to it, not that of the upload, and the
\* walk goes on.
AfterUpload(err) == "walk"

\* One call of UploadPhoto (flickr.UploadFile, then CreateAlbum or
\* AppendPhotoIntoExistingAlbum) and what Process does with its result: sleep
\* and call again while it failed and attempts are left, else log the failure
\* or record the photo in the snapshot, and return to the walk.
Attempt ==
    /\ pc = "upload"
    /\ \E upOK \in BOOLEAN, placeOK \in BOOLEAN :
        /\ (~upOK => ~placeOK)
        /\ LET f == files[walkIdx]
               photoID == IF upOK THEN <<"up", nextPhoto>> ELSE EmptyID
               photo == FlickrPhoto(photoID, PhotoName(f))
               err == ~(upOK /\ placeOK)
               albumID == ReturnedAlbum(destinationAlbum, upOK, placeOK)
               kinds == UploadCalls(upOK, destinationAlbum)
               c == [cur EXCEPT !.attempts = @ + 1,
                                !.failures = @ + (IF err THEN 1 ELSE 0),
                                !.uploads = @ + (IF upOK THEN 1 ELSE 0),
                                !.creates = @ + (IF "create" \in kinds THEN 1 ELSE 0),
                                !.appends = @ + (IF "append" \in kinds THEN 1 ELSE 0),
                                !.ids = IF upOK THEN Append(@, photoID) ELSE @,
                                !.dests = @ \cup {destinationAlbum}]
           IN /\ calls' = Called(kinds)
              /\ remote' = RemoteAfter(f, destinationAlbum, upOK, placeOK, photo)
              /\ loose' = LooseAfter(upOK, placeOK, photoID)
              /\ nextPhoto' = IF upOK THEN nextPhoto + 1 ELSE nextPhoto
              /\ nextSet' = IF upOK /\ placeOK /\ destinationAlbum = EmptyID
                            THEN nextSet + 1 ELSE nextSet
              /\ IF RetryUpload(err, attemptNb)
                 THEN /\ attemptNb' = attemptNb + 1
                      /\ cur' = [c EXCEPT !.sleeps = @ + 1]
                      /\ UNCHANGED <<pc, walkIdx, hist, fromFlickr>>
                 ELSE /\ pc' = AfterUpload(err)
                      /\ walkIdx' = walkIdx + 1
                      /\ cur' = NoFile
                      /\ UNCHANGED attemptNb
                      /\ IF err
                         THEN /\ UNCHANGED fromFlickr
                              /\ hist' = Append(hist,
                                     Entry(f, "failed", c, EmptyID, EmptyID,
                                           fromFlickr'))
                         ELSE /\ fromFlickr' = SnapshotAfter(CurrentDir(f), albumID,
                                                             photoID, PhotoName(f))
                              /\ hist' = Append(hist,
                                     Entry(f, "uploaded", c, albumID, photoID,
                                           fromFlickr'))
    /\ UNCHANGED <<config, files, items, psIdx, currentPage, photolist,
                   nbAttempts, destinationAlbum, deleted, readClean, reads, run,
                   firstRun, boot>>

\* filepath.Walk has visited everything: Process returns the snapshot.
WalkDone ==
    /\ pc = "walk"
    /\ walkIdx > Len(files)
    /\ pc' = "done"
    /\ calls' = Called({})
    /\ UNCHANGED <<config, files, remote, loose, nextPhoto, nextSet, fromFlickr,
                   items, psIdx, currentPage, photolist, nbAttempts, walkIdx,
                   destinationAlbum, attemptNb, cur, hist, deleted, readClean,
                   reads, run, firstRun, boot>>

Next ==
    \/ ProcessStart
    \/ ListAlbums
    \/ GetPhotos
    \/ DeleteDupes
    \/ StatLibrary
    \/ Visit
    \/ Attempt
    \/ WalkDone

Spec == Init /\ [][Next]_vars

SpecReader == InitReader /\ [][Next]_vars

\* A library written with or without a trailing separator, with the default
\* extensions or with extensions the user wrote in capitals.
ScanConfigs ==
    [PhotoLibraryPath : {"lib", "lib/"},
     SkipDirs : {{"@eaDir"}},
     Extensions : {{".png", ".jpg", ".jpeg"}, {".png", ".JPG"}},
     DeleteDupes : BOOLEAN]

\* Files in the root, in album directories, in skipped directories at the
\* first and at the second level, and below a skipped directory; with an
\* extension in small letters, in capitals, and one that is no photo's.
ScanLocalFiles ==
    [dir : {<<>>, <<"A">>, <<"A", "B">>, <<"@eaDir">>, <<"A", "@eaDir">>,
            <<"@eaDir", "A">>},
     name : {1},
     ext : {".jpg", ".JPG", ".txt"}]

InitScan ==
    /\ boot = NoBoot
    /\ config \in ScanConfigs
    /\ files \in SeqUpTo(ScanLocalFiles, ScanFiles)
    /\ remote \in RemoteInits(ScanAlbums, ScanPhotos)
    /\ InitRun

SpecScan == InitScan /\ [][Next]_vars

\* main is started again after a run that returned: a fresh Process against
\* the remote as the first run left it and the same local tree.
Rerun ==
    /\ pc = "done"
    /\ run = 1
    /\ run' = 2
    /\ firstRun' = hist
    /\ pc' = "start"
    /\ fromFlickr' = EmptyMap
    /\ items' = <<>>
    /\ psIdx' = 0
    /\ currentPage' = 0
    /\ photolist' = <<>>
    /\ nbAttempts' = 0
    /\ walkIdx' = 0
    /\ destinationAlbum' = EmptyID
    /\ attemptNb' = 0
    /\ cur' = NoFile
    /\ hist' = <<>>
    /\ deleted' = {}
    /\ readClean' = TRUE
    /\ reads' = NoRead
    /\ calls' = NoCalls
    /\ UNCHANGED <<config, files, remote, loose, nextPhoto, nextSet, boot>>

InitRerun ==
    /\ boot = NoBoot
    /\ config \in Configs
    /\ files \in SeqUpTo(LocalFiles, RerunFiles)
    /\ remote \in RemoteInits(RerunAlbums, RerunPhotos)
    /\ InitRun

NextRerun == Next \/ Rerun

SpecRerun == InitRerun /\ [][NextRerun]_vars

\* One run of Process as the program executes it: a single thread in which
\* every call returns and every sleep ends, so a step that can be taken is
\* taken.
SpecLive == InitRerun /\ [][Next]_vars /\ WF_vars(Next)

\* A remote in which a photo may be in several albums, as the service allows:
\* the albums "A" and "B" hold photos taken from one pool of SharedPhotos
\* photos, none twice in an album.
SharedPool(titles) ==
    [j \in 1..SharedPhotos |-> FlickrPhoto(<<"ph", 0, j>>, titles[j])]

SharedPicks ==
    {s \in SeqUpTo(1..SharedPhotos, SharedPhotos) :
        \A i, j \in 1..Len(s) : s[i] = s[j] => i = j}

SharedRemotes ==
    {<<[id |-> <<"set", 1>>, title |-> "A",
        photos |-> [i \in 1..Len(a) |-> SharedPool(titles)[a[i]]]],
       [id |-> <<"set", 2>>, title |-> "B",
        photos |-> [i \in 1..Len(b) |-> SharedPool(titles)[b[i]]]]>> :
        <<titles, a, b>> \in [1..SharedPhotos -> Titles]
                               \X SharedPicks \X SharedPicks}

InitShared ==
    /\ boot = NoBoot
    /\ config \in Configs
    /\ files \in SeqUpTo(LocalFiles, SharedFiles)
    /\ remote \in SharedRemotes
    /\ InitRun

SpecShared == InitShared /\ [][Next]_vars

\* A library with directories of one base name at two depths: lib/A and
\* lib/B/A, beside lib/B.
DirsLocalFiles ==
    [dir : {<<"A">>, <<"B", "A">>, <<"B">>}, name : Titles, ext : {".jpg"}]

InitDirs ==
    /\ boot = NoBoot
    /\ config \in Configs
    /\ files \in SeqUpTo(DirsLocalFiles, DirsFiles)
    /\ remote \in RemoteInits(DirsAlbums, DirsPhotos)
    /\ InitRun

SpecDirs == InitDirs /\ [][Next]_vars


\* ------------------------------------------------------------ the start
\* main: LoadConfiguration on the configuration file, then, through Process,
\* SetLogLevel on the logger.  A field of the file is <<>> when the file does
\* not name it and <<v>> when it gives it the value v.
Levels == {"panic", "fatal", "error", "warn", "info", "debug"}

LevelStrings ==
    {"", "error", "ERROR", "Error", "debug", "info", "INFO", "warn", "warning",
     "fatal", "panic", "verbose"}

ConfigFiles ==
    [readable : BOOLEAN,
     wellFormed : BOOLEAN,
     api_key : {<<>>, <<"">>, <<"key">>},
     api_secret : {<<>>, <<"">>, <<"secret">>},
     log_level : {<<>>} \cup {<<l>> : l \in LevelStrings}]

\* The Config LoadConfiguration starts from.
Defaults ==
    [APIKey |-> "", APISecret |-> "", PhotoLibraryPath |-> "",
     SkipDirs |-> {"@eaDir"}, Extensions |-> {".png", ".jpg", ".jpeg"},
     DeleteDupes |-> FALSE, LogLevel |-> "INFO", LogOutput |-> "synckr.log",
     UploadAttempts |-> 5, UploadInterval |-> 30,
     RetrieveAttempts |-> 5, RetrieveInterval |-> 5]

\* json.Unmarshal of the file's bytes into c: the fields the file names are
\* overwritten, the others keep their values; bytes that are no JSON leave c
\* as it is.
Unmarshal(file, c) ==
    IF ~file.wellFormed THEN c
    ELSE [c EXCEPT !.APIKey = IF file.api_key = <<>> THEN @ ELSE file.api_key[1],
                   !.APISecret = IF file.api_secret = <<>> THEN @
                                 ELSE file.api_secret[1],
                   !.LogLevel = IF file.log_level = <<>> THEN @
                                ELSE file.log_level[1]]

\* Faulty variant: one credential is enough.
CredentialsMissingBoth(c) == c.APIKey = "" /\ c.APISecret = ""

\* LoadConfiguration: the test that sends a file that was read to log.Fatal.
CredentialsMissing(c) == c.APIKey = "" \/ c.APISecret = ""

\* strings.ToLower on the level strings.
LowerLevel(s) ==
    CASE s = "ERROR" -> "error"
      [] s = "Error" -> "error"
      [] s = "INFO" -> "info"
      [] OTHER -> s

\* logrus.ParseLevel: <<level>>, or <<>> for its error.
ParseLevel(s) ==
    LET l == LowerLevel(s)
    IN IF l = "warning" THEN <<"warn">>
       ELSE IF l \in Levels THEN <<l>>
       ELSE <<>>

\* Faulty variant: a string that names no level leaves the logger's level.
LevelAfterKept(s, old) == IF ParseLevel(s) = <<>> THEN old ELSE ParseLevel(s)[1]

\* The logger's level once SetLogLevel has run on the string s.
LevelAfter(s, old) == IF ParseLevel(s) = <<>> THEN "info" ELSE ParseLevel(s)[1]

\* The variables of the run of Process.
runVars == <<config, files, remote, loose, nextPhoto, nextSet, pc, fromFlickr,
             items, psIdx, currentPage, photolist, nbAttempts, walkIdx,
             destinationAlbum, attemptNb, cur, hist, deleted, readClean, reads,
             run, firstRun, calls>>

\* The program starts: a configuration file, a logger at some level.
InitStartup ==
    /\ \E file \in ConfigFiles, level \in Levels :
          boot = [pc |-> "load", file |-> file, before |-> level,
                  level |-> level, ret |-> "none", config |-> Defaults,
                  err |-> FALSE]
    /\ config = [PhotoLibraryPath |-> "lib", SkipDirs |-> {"@eaDir"},
                 Extensions |-> {".png", ".jpg", ".jpeg"}, DeleteDupes |-> FALSE]
    /\ files = <<>>
    /\ remote = <<>>
    /\ InitRun

\* LoadConfiguration: the defaults and the error when the file cannot be
\* read; else the file's values over the defaults, and log.Fatal when a
\* credential is missing.
LoadConfiguration ==
    /\ boot.pc = "load"
    /\ IF ~boot.file.readable
       THEN boot' = [boot EXCEPT !.pc = "loaded", !.ret = "returned",
                                 !.config = Defaults, !.err = TRUE]
       ELSE LET c == Unmarshal(boot.file, Defaults)
            IN IF CredentialsMissing(c)
               THEN boot' = [boot EXCEPT !.pc = "exit", !.ret = "fatal"]
               ELSE boot' = [boot EXCEPT !.pc = "loaded", !.ret = "returned",
                                         !.config = c, !.err = FALSE]
    /\ UNCHANGED runVars

\* main: an error of LoadConfiguration is fatal.
MainFatal ==
    /\ boot.pc = "loaded"
    /\ boot.err
    /\ boot' = [boot EXCEPT !.pc = "exit"]
    /\ UNCHANGED runVars

\* SetLogLevel, as Process calls it with the configuration main loaded.
SetLogLevel ==
    /\ boot.pc = "loaded"
    /\ ~boot.err
    /\ boot' = [boot EXCEPT !.pc = "set",
                            !.level = LevelAfter(boot.config.LogLevel, @)]
    /\ UNCHANGED runVars

NextStartup ==
    \/ LoadConfiguration
    \/ MainFatal
    \/ SetLogLevel

SpecStartup == InitStartup /\ [][NextStartup]_vars

\* ------------------------------------------------------------- properties
Sorted(photos) ==
    \A i \in 1..Len(photos), j \in 1..Len(photos) :
        i < j => photos[i].Title <= photos[j].Title

HasTitle(photos, t) == \E i \in 1..Len(photos) : photos[i].Title = t

\* The files the walk has decided on: eligible and reached.
Decided(e) == e.outcome \in {"skipped", "uploaded", "failed"}

AfterRead == pc \in {"dedupe", "stat", "walk", "upload", "done"}

\* C1: an eligible file whose album is in the snapshot and holds no photo
\* titled exactly as the file is not skipped: UploadPhoto is called for it
\* with the album's id.
C1_NoFalsePresent ==
    \A i \in 1..Len(hist) :
        (/\ Decided(hist[i])
         /\ hist[i].present
         /\ ~HasTitle(hist[i].before.Photos, hist[i].title))
        => /\ hist[i].outcome # "skipped"
           /\ hist[i].dests = {hist[i].before.ID}

\* C2: when the run has returned and no file exhausted its retries, the
\* snapshot holds, for every eligible file, a photo titled as the file in the
\* album named after its directory.
C2_Complete ==
    (pc = "done" /\ \A i \in 1..Len(hist) : hist[i].outcome # "failed")
    => \A i \in 1..Len(hist) :
          Decided(hist[i])
          => /\ hist[i].album \in DOMAIN fromFlickr
             /\ HasTitle(fromFlickr[hist[i].album].Photos, hist[i].title)

\* C3: once the inventory has been read, every album of the snapshot is
\* sorted by title, in every later state of the run.
C3_SortedThroughout ==
    AfterRead => \A n \in DOMAIN fromFlickr : Sorted(fromFlickr[n].Photos)

\* C3 witness: the walk has uploaded into an album that now holds two photos
\* or more, and has given up on another file.
C3_Witness ==
    /\ pc = "done"
    /\ \E i \in 1..Len(hist) :
          /\ hist[i].outcome = "uploaded"
          /\ Len(fromFlickr[hist[i].album].Photos) >= 2
    /\ \E i \in 1..Len(hist) : hist[i].outcome = "failed"

\* C4: when RetrieveFromFlickr returns, every album of the snapshot is sorted
\* non-decreasing by title.
C4_SortedAfterRead ==
    pc = "dedupe" => \A n \in DOMAIN fromFlickr : Sorted(fromFlickr[n].Photos)

\* C4 witness: the reader has returned an album read over several pages that
\* the remote holds in another order than by title.
C4_Witness ==
    /\ pc = "dedupe"
    /\ \E k \in 1..Len(remote) :
          /\ ~Sorted(remote[k].photos)
          /\ Len(remote[k].photos) > PageSize
          /\ remote[k].title \in DOMAIN fromFlickr
          /\ fromFlickr[remote[k].title].ID = remote[k].id
          /\ Len(fromFlickr[remote[k].title].Photos) = Len(remote[k].photos)

\* The walk is about to visit a file that is eligible and whose album holds
\* a photo titled as the file.
AtPresentPhoto ==
    /\ pc = "walk"
    /\ walkIdx <= Len(files)
    /\ ~Pruned(files[walkIdx])
    /\ Eligible(files[walkIdx])
    /\ CurrentDir(files[walkIdx]) \in DOMAIN fromFlickr
    /\ HasTitle(fromFlickr[CurrentDir(files[walkIdx])].Photos,
                PhotoName(files[walkIdx]))

\* C5: a file whose photo is already in its album is passed over: no call of
\* UploadPhoto, nothing changes on the remote, the snapshot is left as it is.
C5_PresentNeverUploaded ==
    [][AtPresentPhoto =>
          /\ pc' = "walk"
          /\ walkIdx' = walkIdx + 1
          /\ fromFlickr' = fromFlickr
          /\ remote' = remote
          /\ loose' = loose
          /\ Last(hist').outcome = "skipped"
          /\ Last(hist').attempts = 0]_vars

\* C5 witness: a file was skipped because its album held its title, an album
\* in which that title is the last one.
C5_Witness ==
    \E i \in 1..Len(hist) :
        /\ hist[i].outcome = "skipped"
        /\ hist[i].present
        /\ Len(hist[i].before.Photos) > 0
        /\ Last(hist[i].before.Photos).Title = hist[i].title

\* What a file's record says of the destinations passed to UploadPhoto: one
\* destination, the album's id when the album was in the snapshot, "" if not.
RightDestination(e) ==
    /\ e.attempts > 0 => Cardinality(e.dests) = 1
    /\ EmptyID \in e.dests => ~e.present
    /\ (e.attempts > 0 /\ ~e.present) => e.dests = {EmptyID}
    /\ (e.attempts > 0 /\ e.present) => e.dests = {e.before.ID}

\* C6: UploadPhoto gets "" as destination exactly when the album was absent
\* from the snapshot when the file was decided, the snapshot's id for the
\* album otherwise, and the same destination at every attempt for the file.
C6_Destination ==
    /\ \A i \in 1..Len(hist) : RightDestination(hist[i])
    /\ RightDestination(cur)
    /\ pc = "upload" =>
          /\ destinationAlbum = cur.before.ID
          /\ cur.present <=> destinationAlbum # EmptyID

\* C6 witness: one file went, after a retry, into an album the snapshot held,
\* and another, after a retry, into an album it did not hold.
C6_Witness ==
    /\ \E i \in 1..Len(hist) :
          hist[i].attempts > 1 /\ hist[i].present /\ hist[i].outcome = "uploaded"
    /\ \E i \in 1..Len(hist) :
          hist[i].attempts > 1 /\ ~hist[i].present /\ hist[i].outcome = "uploaded"

\* The record e is that of a file whose upload created its album.
Created(e) == e.outcome = "uploaded" /\ e.dests = {EmptyID}

\* C7: for an album the snapshot did not hold, the first successful upload
\* creates the album with the uploaded photo as its first photo; later uploads
\* for that album name go to the created id; an album name is created at most
\* once in a run; and two files img1, img2 of such a directory, both uploaded,
\* leave the album with the two photos.
C7_CreateOnceThenAppend ==
    /\ \A i \in 1..Len(hist) :
          (hist[i].outcome = "uploaded" /\ ~hist[i].present) => Created(hist[i])
    /\ \A i \in 1..Len(hist) :
          Created(hist[i]) =>
             /\ \E k \in 1..Len(remote) :
                   /\ remote[k].id = hist[i].albumID
                   /\ remote[k].title = hist[i].album
                   /\ remote[k].photos[1].ID = hist[i].photoID
             /\ \A j \in 1..Len(hist) :
                   (j > i /\ hist[j].album = hist[i].album) =>
                      /\ ~Created(hist[j])
                      /\ hist[j].attempts > 0 => hist[j].dests = {hist[i].albumID}
             /\ (pc = "upload" /\ CurrentDir(files[walkIdx]) = hist[i].album)
                   => destinationAlbum = hist[i].albumID
    /\ (/\ pc = "done"
        /\ Len(hist) = 2
        /\ hist[1].album = hist[2].album
        /\ hist[1].title < hist[2].title
        /\ Created(hist[1])
        /\ Decided(hist[2])
        /\ hist[2].outcome # "failed")
       => /\ hist[2].outcome = "uploaded"
          /\ fromFlickr[hist[1].album].ID = hist[1].albumID
          /\ fromFlickr[hist[1].album].Photos
                = <<FlickrPhoto(hist[1].photoID, hist[1].title),
                    FlickrPhoto(hist[2].photoID, hist[2].title)>>

\* C7 witness: two files of a directory without album, the first created the
\* album, the second was appended to it, and the snapshot holds both.
C7_Witness ==
    /\ pc = "done"
    /\ Len(hist) = 2
    /\ Created(hist[1])
    /\ hist[2].outcome = "uploaded"
    /\ hist[2].album = hist[1].album
    /\ hist[2].dests = {hist[1].albumID}
    /\ Len(fromFlickr[hist[1].album].Photos) = 2

\* No UploadPhoto call has been made in the run so far.
NoUpload == pc # "upload" /\ \A i \in 1..Len(hist) : hist[i].attempts = 0

C9_RetryUntilSuccess ==
    /\ \A i \in 1..Len(hist) :
          /\ hist[i].outcome = "uploaded" =>
                /\ hist[i].failures <= UploadAttempts
                /\ hist[i].attempts = hist[i].failures + 1
                /\ hist[i].sleeps = hist[i].failures
          /\ hist[i].outcome = "failed" => hist[i].failures = UploadAttempts + 1
    /\ pc = "upload" =>
          /\ cur.failures = cur.attempts
          /\ cur.sleeps = cur.attempts
          /\ attemptNb = cur.attempts

\* C9 witness: a file uploaded at its third call, after two sleeps.
C9_Witness ==
    \E i \in 1..Len(hist) :
        /\ hist[i].outcome = "uploaded"
        /\ hist[i].failures = 2
        /\ hist[i].attempts = 3
        /\ hist[i].sleeps = 2

\* C10: no file gets more than UploadAttempts + 1 calls of UploadPhoto; a file
\* whose calls failed UploadAttempts + 1 times is recorded as failed, and its
\* album's entry in the snapshot is as it was before the file.
C10_RetryExhausted ==
    /\ cur.attempts <= UploadAttempts
    /\ \A i \in 1..Len(hist) :
          /\ hist[i].attempts <= UploadAttempts + 1
          /\ hist[i].failures = UploadAttempts + 1 =>
                /\ hist[i].outcome = "failed"
                /\ hist[i].after = hist[i].before
                /\ hist[i].presentAfter = hist[i].present

\* C10 witness: the run has given up on a file of an album that holds photos,
\* after uploads that were not placed.
C10_Witness ==
    \E i \in 1..Len(hist) :
        /\ hist[i].outcome = "failed"
        /\ hist[i].uploads > 0
        /\ hist[i].present
        /\ Len(hist[i].before.Photos) > 0

\* The walk has a record of each file before the one it stands at, and of
\* every file once it is over.
EveryFileRecorded ==
    /\ pc \in {"walk", "upload"} => Len(hist) = walkIdx - 1
    /\ pc = "done" => Len(hist) = Len(files)
    /\ \A i \in 1..Len(hist) :
          hist[i].dir = files[i].dir /\ hist[i].title = files[i].name

\* C11: a file whose uploads all failed does not end the run: the walk goes
\* on, each later file gets its own record, the eligible ones among them are
\* decided, and the failed file's calls of UploadPhoto stay as they were (the
\* file in hand is a later one).
C11_FailureNotFatal ==
    /\ EveryFileRecorded
    /\ \A i \in 1..Len(hist) :
          hist[i].outcome = "failed" =>
             /\ pc \in {"walk", "upload", "done"}
             /\ hist[i].attempts = UploadAttempts + 1
             /\ pc = "upload" => walkIdx > i
             /\ \A j \in (i + 1)..Len(hist) :
                   (~Pruned(files[j]) /\ Eligible(files[j])) => Decided(hist[j])

\* C11 witness: the run gave up on its first file and then uploaded the
\* second, into the same album.
C11_Witness ==
    /\ pc = "done"
    /\ Len(hist) = 2
    /\ hist[1].outcome = "failed"
    /\ hist[2].outcome = "uploaded"
    /\ hist[2].album = hist[1].album

\* The sequences a and b hold the same photos.
SamePhotos(a, b) ==
    /\ Len(a) = Len(b)
    /\ {a[k] : k \in 1..Len(a)} = {b[k] : k \in 1..Len(b)}

\* The step ends the pagination of the album being read: the album is stored
\* under its title with its id and the photos accumulated, and the reader
\* turns to the next album or returns.
AlbumStored ==
    /\ psIdx' = psIdx + 1
    /\ pc' = IF psIdx < Len(items) THEN "page" ELSE "dedupe"
    /\ items[psIdx].Title \in DOMAIN fromFlickr'
    /\ fromFlickr'[items[psIdx].Title].ID = items[psIdx].Id
    /\ SamePhotos(fromFlickr'[items[psIdx].Title].Photos, photolist)

\* The step asks for the same page of the same album again, after a sleep.
PageAskedAgain ==
    /\ pc' = "page"
    /\ psIdx' = psIdx
    /\ currentPage' = currentPage
    /\ photolist' = photolist
    /\ fromFlickr' = fromFlickr
    /\ reads'.fetches = reads.fetches + 1
    /\ reads'.sleeps = reads.sleeps + 1

\* The step takes the photos of the page and turns to the next page, with a
\* fresh retry count.
PageTaken ==
    /\ pc' = "page"
    /\ psIdx' = psIdx
    /\ currentPage' = currentPage + 1
    /\ photolist' = photolist \o reads'.got
    /\ nbAttempts' = 0
    /\ reads'.fetches = 0

\* C12: a page that comes back empty is asked for again, after a sleep, as
\* long as it has been asked for at most RetrieveAttempts times; a page that
\* comes back with photos is taken and the next page is asked for, with a
\* fresh count; a page still empty at the call after the last retry ends the
\* album, which is stored with the photos accumulated.  No page is asked for
\* more than RetrieveAttempts + 1 times.
C12_StallPolicy ==
    [][pc = "page" =>
          /\ reads.fetches <= RetrieveAttempts
          /\ reads.sleeps = reads.fetches
          /\ (reads'.got = <<>> /\ reads.fetches < RetrieveAttempts)
                => PageAskedAgain
          /\ reads'.got # <<>> => PageTaken
          /\ (reads'.got = <<>> /\ reads.fetches = RetrieveAttempts)
                => AlbumStored]_vars

\* C13 as stated: a GetPhotos call that returns an error ends the pagination
\* of its album: the album is stored with the photos of the earlier pages and
\* the reader turns to the next album.
C13_ErrorStopsPagination ==
    [][(pc = "page" /\ reads'.err) => AlbumStored]_vars

\* C13 as amended: a GetPhotos call that returns an error never ends the run.
\* With no photos, the page is asked for again as long as retries are left,
\* and the call after the last retry ends the pagination of the album, which
\* is stored with the photos of the earlier pages before the reader turns to
\* the next album; with photos, the error is ignored and the page is taken.
C13_ErrorRetriedThenStopsAlbumOnly ==
    [][(pc = "page" /\ reads'.err) =>
          /\ pc' \in {"page", "dedupe"}
          /\ (reads'.got = <<>> /\ reads.fetches < RetrieveAttempts)
                => PageAskedAgain
          /\ (reads'.got = <<>> /\ reads.fetches >= RetrieveAttempts)
                => AlbumStored
          /\ reads'.got # <<>> => PageTaken]_vars

\* C13 witness: the second page of the first of two albums was answered with
\* an error and no photos until the retries were used up; the album is in the
\* snapshot with its first page only, and the reader is at the second album.
C13_Witness ==
    /\ pc = "page"
    /\ psIdx = 2
    /\ reads.err
    /\ reads.got = <<>>
    /\ Len(remote[1].photos) = 2
    /\ items[1].Title \in DOMAIN fromFlickr
    /\ fromFlickr[items[1].Title].ID = items[1].Id
    /\ fromFlickr[items[1].Title].Photos = <<remote[1].photos[1]>>

\* C14: when photosets.GetList returned an error the run is over, with an
\* empty snapshot and without a GetPhotos call, a delete or an UploadPhoto
\* call (hence no upload, album creation or addition to an album): the remote
\* is as the run found it.
C14_ListErrorFatal ==
    reads.listed = "error" =>
       /\ pc = "fatal"
       /\ fromFlickr = EmptyMap
       /\ items = <<>> /\ psIdx = 0 /\ currentPage = 0
       /\ reads.fetches = 0 /\ readClean
       /\ deleted = {}
       /\ hist = <<>> /\ cur = NoFile /\ walkIdx = 0
       /\ loose = {} /\ nextPhoto = 1 /\ nextSet = Len(remote) + 1
       /\ \A k \in 1..Len(remote) :
             /\ remote[k].id = <<"set", k>>
             /\ \A j \in 1..Len(remote[k].photos) :
                   remote[k].photos[j].ID = <<"ph", k, j>>

\* C14 witness: the listing failed in a run that had an album with photos to
\* read, duplicates to delete and files to upload.
C14_Witness ==
    /\ reads.listed = "error"
    /\ pc = "fatal"
    /\ config.DeleteDupes
    /\ Len(files) = MaxFiles
    /\ Len(remote) = 1
    /\ Len(remote[1].photos) = 2
    /\ remote[1].photos[1].Title = remote[1].photos[2].Title

\* The ids of the photos of the snapshot's album n that are titled t.
IdsTitled(n, t) ==
    {fromFlickr[n].Photos[i].ID :
        i \in {k \in 1..Len(fromFlickr[n].Photos) : fromFlickr[n].Photos[k].Title = t}}

\* C15: when DeleteDupes has run, a delete was asked for a photo of the
\* snapshot exactly when the photo is not the first of its album and is
\* titled as the photo before it, and for nothing else; of k photos with one
\* title in an album k - 1 were asked to be deleted; and of an album titled
\* a, a, b only the second photo was.
C15_AdjacentRepeatsDeleted ==
    (pc = "stat" /\ config.DeleteDupes) =>
       /\ \A n \in DOMAIN fromFlickr :
             LET photos == fromFlickr[n].Photos
             IN /\ \A i \in 1..Len(photos) :
                      photos[i].ID \in deleted
                         <=> (i > 1 /\ photos[i].Title = photos[i - 1].Title)
                /\ \A t \in Titles :
                      IdsTitled(n, t) # {} =>
                         Cardinality(IdsTitled(n, t) \cap deleted)
                            = Cardinality(IdsTitled(n, t)) - 1
                /\ (/\ Len(photos) = 3
                    /\ photos[1].Title = photos[2].Title
                    /\ photos[2].Title # photos[3].Title)
                      => deleted \cap {photos[i].ID : i \in 1..3} = {photos[2].ID}
       /\ \A id \in deleted :
             \E n \in DOMAIN fromFlickr :
                \E i \in 1..Len(fromFlickr[n].Photos) :
                   fromFlickr[n].Photos[i].ID = id

\* C15 witness: DeleteDupes has run on an album titled a, a, b and asked for
\* one deletion.
C15_Witness ==
    /\ pc = "stat"
    /\ config.DeleteDupes
    /\ Cardinality(deleted) = 1
    /\ \E n \in DOMAIN fromFlickr :
          /\ Len(fromFlickr[n].Photos) = 3
          /\ fromFlickr[n].Photos[1].Title = fromFlickr[n].Photos[2].Title
          /\ fromFlickr[n].Photos[2].Title # fromFlickr[n].Photos[3].Title
          /\ deleted = {fromFlickr[n].Photos[2].ID}

\* C16: the step of DeleteDupes leaves the snapshot as it was: the same
\* albums, each with the same id and the same photos, whichever of the delete
\* calls failed.
C16_DedupeKeepsSnapshot ==
    [][pc = "dedupe" => fromFlickr' = fromFlickr]_vars

\* C16 witness: DeleteDupes asked for two deletions, of which the remote did
\* one and failed the other; the snapshot holds both photos.
C16_Witness ==
    /\ pc = "stat"
    /\ config.DeleteDupes
    /\ \E n \in DOMAIN fromFlickr :
          LET photos == fromFlickr[n].Photos
              left == UNION {{remote[k].photos[j].ID : j \in 1..Len(remote[k].photos)} :
                                k \in 1..Len(remote)}
          IN /\ Len(photos) = 3
             /\ deleted = {photos[2].ID, photos[3].ID}
             /\ photos[2].ID \notin left
             /\ photos[3].ID \in left

\* C17: in a run whose DeleteDupes option is off no deletion is asked of the
\* remote.
C17_NoDeleteWhenOff ==
    ~config.DeleteDupes => deleted = {}

\* C17 witness: a run with the option off has read a snapshot that holds two
\* photos with one title in an album, and has gone past DeleteDupes.
C17_Witness ==
    /\ ~config.DeleteDupes
    /\ pc = "stat"
    /\ deleted = {}
    /\ \E n \in DOMAIN fromFlickr :
          \E i \in 2..Len(fromFlickr[n].Photos) :
             fromFlickr[n].Photos[i].Title = fromFlickr[n].Photos[i - 1].Title

\* C18: no UploadPhoto call is made for a file that lies directly in the
\* library's root directory, however the configuration writes the root.
C18_RootFilesNeverUploaded ==
    /\ \A i \in 1..Len(hist) : hist[i].dir = <<>> => hist[i].attempts = 0
    /\ pc = "upload" => files[walkIdx].dir # <<>>

\* Some directory on the way from the root to the file, the root aside, is
\* named in the skip list.
UnderSkipped(dir) == \E k \in 1..Len(dir) : dir[k] \in config.SkipDirs

\* C19: a file below a directory named in the skip list, at whatever depth,
\* is never looked at: no eligibility test, no lookup in the snapshot, no
\* UploadPhoto call; every other file is visited.
C19_SkippedSubtreesNotVisited ==
    /\ \A i \in 1..Len(hist) :
          IF UnderSkipped(hist[i].dir)
          THEN hist[i].outcome = "pruned" /\ hist[i].attempts = 0
          ELSE hist[i].outcome \in {"ineligible", "skipped", "uploaded", "failed"}
    /\ pc = "upload" => ~UnderSkipped(files[walkIdx].dir)

\* C19 witness: a photo in an album directory that lies below a skipped
\* directory was not visited, and a photo in the album directory of the same
\* name next to the skipped directory was uploaded.
C19_Witness ==
    /\ pc = "done"
    /\ Len(hist) = 2
    /\ hist[1].dir = <<"@eaDir", "A">>
    /\ hist[1].ext = ".jpg"
    /\ hist[1].outcome = "pruned"
    /\ hist[2].dir = <<"A">>
    /\ hist[2].outcome = "uploaded"

\* The extensions a and b are the same when case is ignored.
EqualFold(a, b) == a = b \/ {a, b} = {".jpg", ".JPG"}

\* C20: a visited file outside the root directory is taken as a photo exactly
\* when its extension is, case ignored, one of the configured extensions.
C20_ExtensionCaseInsensitive ==
    \A i \in 1..Len(hist) :
        (hist[i].dir # <<>> /\ hist[i].outcome # "pruned") =>
           (hist[i].outcome # "ineligible"
               <=> \E e \in config.Extensions : EqualFold(hist[i].ext, e))

\* What the run has recorded of the file in hand once the step is made.
AttemptRecord == IF pc' = "upload" THEN cur' ELSE Last(hist')

\* C21: one call of UploadPhoto makes one upload call; when the upload fails
\* it makes no other call and the remote stays as it is; when it succeeds with
\* a destination, it makes one addition to that album and creates no album;
\* when it succeeds without a destination, it makes one creation, of an album
\* named after the file's directory that holds the uploaded photo alone.  When
\* the call succeeds, the album id it returns is the destination, or that of
\* the album created, and the photo id that of the upload just made.
C21_Placement ==
    [][pc = "upload" =>
          LET c == AttemptRecord
              f == files[walkIdx]
              up == c.uploads - cur.uploads
              cr == c.creates - cur.creates
              ap == c.appends - cur.appends
          IN /\ c.attempts = cur.attempts + 1
             /\ up \in {0, 1}
             /\ Len(c.ids) = Len(cur.ids) + up
             /\ up = 0 =>
                   /\ cr = 0 /\ ap = 0
                   /\ calls'.now = {"upload"}
                   /\ remote' = remote /\ loose' = loose
             /\ (up = 1 /\ destinationAlbum # EmptyID) =>
                   /\ ap = 1 /\ cr = 0
                   /\ calls'.now = {"upload", "append"}
                   /\ Len(remote') = Len(remote)
                   /\ \A k \in 1..Len(remote) :
                         remote[k].id # destinationAlbum => remote'[k] = remote[k]
             /\ (up = 1 /\ destinationAlbum = EmptyID) =>
                   /\ cr = 1 /\ ap = 0
                   /\ calls'.now = {"upload", "create"}
                   /\ \A k \in 1..Len(remote) : remote'[k] = remote[k]
                   /\ Len(remote') > Len(remote) =>
                         /\ Len(remote') = Len(remote) + 1
                         /\ Last(remote').title = Last(f.dir)
                         /\ Last(remote').photos = <<FlickrPhoto(Last(c.ids), f.name)>>
             /\ (pc' # "upload" /\ c.outcome = "uploaded") =>
                   /\ up = 1
                   /\ c.photoID = Last(c.ids)
                   /\ c.albumID # EmptyID
                   /\ c.albumID = IF destinationAlbum # EmptyID
                                  THEN destinationAlbum
                                  ELSE Last(remote').id
                   /\ \E k \in 1..Len(remote') :
                         /\ remote'[k].id = c.albumID
                         /\ Last(remote'[k].photos) = FlickrPhoto(c.photoID, f.name)]_vars

\* C21 witness: a file was put in an album created for it at the second call,
\* the upload of the first call having failed, and another file was added to
\* an album.
C21_Witness ==
    /\ \E i \in 1..Len(hist) :
          /\ hist[i].outcome = "uploaded"
          /\ hist[i].attempts = 2 /\ hist[i].uploads = 1
          /\ hist[i].creates = 1 /\ hist[i].appends = 0
    /\ \E i \in 1..Len(hist) :
          /\ hist[i].outcome = "uploaded"
          /\ hist[i].appends = 1 /\ hist[i].creates = 0

\* The ids of the photos the remote holds in its albums.
PlacedIds ==
    UNION {{remote[k].photos[j].ID : j \in 1..Len(remote[k].photos)} :
              k \in 1..Len(remote)}

\* The ids of the photos of the snapshot.
SnapshotIds ==
    UNION {{fromFlickr[n].Photos[j].ID : j \in 1..Len(fromFlickr[n].Photos)} :
              n \in DOMAIN fromFlickr}

\* C22: every call of UploadPhoto for a file uploads the file anew under an id
\* of its own.  A file recorded as uploaded after j calls whose upload went
\* through and whose placement failed has j + 1 photos on the remote: the last
\* one is in the album and in the snapshot, the j others are in no album and
\* not in the snapshot.
C22_RetryUploadsAgain ==
    /\ \A i \in 1..Len(hist) :
          LET e == hist[i]
              ids == {e.ids[k] : k \in 1..Len(e.ids)}
          IN /\ Len(e.ids) = e.uploads
             /\ Cardinality(ids) = e.uploads
             /\ e.creates + e.appends = e.uploads
             /\ e.outcome = "uploaded" =>
                   /\ e.uploads = (e.failures - (e.attempts - e.uploads)) + 1
                   /\ e.photoID = Last(e.ids)
                   /\ e.photoID \in PlacedIds \cap SnapshotIds
                   /\ (ids \ {e.photoID}) \subseteq loose
                   /\ (ids \ {e.photoID}) \cap (PlacedIds \cup SnapshotIds) = {}
    /\ \A i \in 1..Len(hist), j \in 1..Len(hist) :
          i # j => {hist[i].ids[k] : k \in 1..Len(hist[i].ids)}
                      \cap {hist[j].ids[k] : k \in 1..Len(hist[j].ids)} = {}

\* C22 witness: a file was uploaded three times, the first two photos could
\* not be placed, the third is in the album.
C22_Witness ==
    \E i \in 1..Len(hist) :
        /\ hist[i].outcome = "uploaded"
        /\ hist[i].uploads = 3
        /\ hist[i].attempts = 3
        /\ Cardinality(loose) >= 2

\* C23: from the moment DeleteDupes is over, a step changes the snapshot only
\* when it records a file as uploaded, and then the entry of the file's album
\* gets the album id UploadPhoto returned and, after the photos it had, the
\* photo id returned with the file's photo name; the other entries stay.
C23_SnapshotUpdate ==
    [][(pc = "stat" \/ pc = "walk" \/ pc = "upload") =>
          (IF hist' # hist /\ Last(hist').outcome = "uploaded"
           THEN LET e == Last(hist')
                IN /\ e.before = AlbumEntry(fromFlickr, e.album)
                   /\ DOMAIN fromFlickr' = DOMAIN fromFlickr \cup {e.album}
                   /\ fromFlickr'[e.album].ID = e.albumID
                   /\ fromFlickr'[e.album].Photos
                         = Append(e.before.Photos, FlickrPhoto(e.photoID, e.title))
                   /\ \A n \in DOMAIN fromFlickr \ {e.album} :
                         fromFlickr'[n] = fromFlickr[n]
           ELSE fromFlickr' = fromFlickr)]_vars

\* C23 witness: a first file went into an album created for it, a second one
\* into another album, which the snapshot held with photos.
C23_Witness ==
    /\ Len(hist) = 2
    /\ hist[1].outcome = "uploaded" /\ ~hist[1].present
    /\ hist[2].outcome = "uploaded" /\ hist[2].present
    /\ hist[2].album # hist[1].album
    /\ Len(hist[2].before.Photos) >= 1
    /\ Len(fromFlickr[hist[2].album].Photos) = Len(hist[2].before.Photos) + 1
    /\ Len(fromFlickr[hist[1].album].Photos) = 1

\* The album k of the remote is the last one listed with its title.
LastTitled(k) == \A j \in (k + 1)..Len(remote) : remote[j].title # remote[k].title

\* The photos are those of the first pages of the remote album k, each once.
FirstPagesOf(photos, k) ==
    /\ Len(photos) <= Len(remote[k].photos)
    /\ Len(photos) = Len(remote[k].photos) \/ Len(photos) % PageSize = 0
    /\ SamePhotos(photos, SubSeq(remote[k].photos, 1, Len(photos)))

\* C24: when RetrieveFromFlickr returns, every album of the snapshot has the
\* id of a remote album of its title and holds the photos of that album's
\* first pages, each page once; and when every page asked for was answered
\* with the page, the snapshot has an entry for each title of the remote,
\* which holds all the photos of the album.
C24_ReaderComplete ==
    pc = "dedupe" =>
       /\ \A n \in DOMAIN fromFlickr :
             \E k \in 1..Len(remote) :
                /\ remote[k].title = n
                /\ remote[k].id = fromFlickr[n].ID
                /\ FirstPagesOf(fromFlickr[n].Photos, k)
       /\ readClean =>
             /\ DOMAIN fromFlickr = {remote[k].title : k \in 1..Len(remote)}
             /\ \A k \in 1..Len(remote) :
                   LastTitled(k) =>
                      /\ fromFlickr[remote[k].title].ID = remote[k].id
                      /\ SamePhotos(fromFlickr[remote[k].title].Photos,
                                    remote[k].photos)

\* C24 witness: the reader has returned from a remote of two albums, one of
\* two pages and one of one page, every page asked for having been answered
\* with the page.
C24_Witness ==
    /\ pc = "dedupe"
    /\ readClean
    /\ Len(remote) = 2
    /\ remote[1].title # remote[2].title
    /\ Len(remote[1].photos) = 2 * PageSize
    /\ Len(remote[2].photos) = PageSize
    /\ Len(fromFlickr[remote[1].title].Photos) = 2 * PageSize
    /\ Len(fromFlickr[remote[2].title].Photos) = PageSize

ReadCalls == {"listAlbums", "listAlbumPhotos"}

WriteCalls == {"upload", "create", "append"}

\* C25: a step that reads from the remote comes before every deletion and
\* every upload, creation or addition, and is a step of the reader; a step
\* that deletes comes before every upload, creation or addition; and once the
\* reader has returned no step reads from the remote.
C25_PhaseOrder ==
    [][/\ calls'.now \cap ReadCalls # {} =>
             /\ calls'.past \cap ({"deletePhoto"} \cup WriteCalls) = {}
             /\ pc = "list" \/ pc = "page"
       /\ "deletePhoto" \in calls'.now =>
             /\ calls'.past \cap WriteCalls = {}
             /\ pc = "dedupe"
       /\ calls'.now \cap WriteCalls # {} => pc = "upload"
       /\ AfterRead => calls'.now \cap ReadCalls = {}]_vars

\* C25 witness: the run has read the remote, deleted a duplicate, uploaded a
\* first file and skipped a second one of the same album, which it found in
\* the snapshot.
C25_Witness ==
    /\ pc = "done"
    /\ calls.past = ReadCalls \cup {"deletePhoto", "upload", "create"}
    /\ Len(hist) = 2
    /\ hist[1].outcome = "uploaded"
    /\ hist[2].outcome = "skipped"
    /\ hist[2].album = hist[1].album
    /\ hist[2].title = hist[1].title

\* The file gives the field a value that is not empty.
Supplies(file, field) == file.wellFormed /\ field # <<>> /\ field # <<"">>

\* C26: LoadConfiguration returns the defaults and an error when the file
\* cannot be read; it returns without error when the file can be read and
\* gives both credentials; it ends the process when the file can be read and
\* lacks a credential.
C26_LoadConfiguration ==
    boot.pc \in {"loaded", "exit", "set"} =>
       LET file == boot.file
           both == /\ Supplies(file, file.api_key)
                   /\ Supplies(file, file.api_secret)
       IN /\ ~file.readable =>
                /\ boot.ret = "returned"
                /\ boot.err
                /\ boot.config = Defaults
          /\ (file.readable /\ both) =>
                /\ boot.ret = "returned"
                /\ ~boot.err
                /\ boot.config.APIKey = file.api_key[1]
                /\ boot.config.APISecret = file.api_secret[1]
          /\ (file.readable /\ ~both) => boot.ret = "fatal"

\* C26 witness: a file with both credentials and a log level was loaded.
C26_Witness ==
    /\ boot.pc = "loaded"
    /\ boot.file.readable
    /\ boot.ret = "returned"
    /\ ~boot.err
    /\ boot.config.APIKey = "key"
    /\ boot.config.APISecret = "secret"
    /\ boot.config.LogLevel = "debug"

\* The strings that name the level l.
NamesOf(l) ==
    CASE l = "error" -> {"error", "ERROR", "Error"}
      [] l = "info" -> {"info", "INFO"}
      [] l = "warn" -> {"warn", "warning"}
      [] OTHER -> {l}

\* C27: after SetLogLevel the logger is at the level the configuration's
\* LogLevel names, and at the info level when it names none.
C27_SetLogLevel ==
    boot.pc = "set" =>
       /\ \A l \in Levels : boot.config.LogLevel \in NamesOf(l) => boot.level = l
       /\ boot.config.LogLevel \notin UNION {NamesOf(l) : l \in Levels}
             => boot.level = "info"
       /\ boot.config.LogLevel = "error" => boot.level = "error"
       /\ boot.config.LogLevel = "" => boot.level = "info"

\* C27 witness: a logger at the error level was set to the info level by an
\* empty LogLevel.
C27_Witness ==
    /\ boot.pc = "set"
    /\ boot.config.LogLevel = ""
    /\ boot.before = "error"
    /\ boot.level = "info"

\* C28: RetrievePageFromFlickr returns whatever GetPhotos answers: no answer
\* makes it panic.
C28_PageFetchReturns == pc # "panic"

\* Every title of the photos is below t.
AllBelow(photos, t) == \A k \in 1..Len(photos) : photos[k].Title < t

C30_OneUploadPerTitle ==
    /\ \A i \in 1..Len(hist), j \in 1..Len(hist) :
          (/\ i < j
           /\ hist[i].outcome = "uploaded"
           /\ hist[j].album = hist[i].album
           /\ hist[j].title = hist[i].title)
          => /\ hist[j].attempts = 0
             /\ Decided(hist[j]) => hist[j].outcome = "skipped"
    /\ pc = "upload" =>
          \A i \in 1..Len(hist) :
             hist[i].outcome = "uploaded" =>
                ~(/\ hist[i].album = CurrentDir(files[walkIdx])
                  /\ hist[i].title = PhotoName(files[walkIdx]))

\* C30 witness: a photo was uploaded from a .jpg file and the .JPG file of the
\* same name in the same directory was then passed over.
C30_Witness ==
    /\ Len(hist) = 2
    /\ hist[1].outcome = "uploaded"
    /\ hist[1].ext = ".jpg"
    /\ hist[2].ext = ".JPG"
    /\ hist[2].dir = hist[1].dir
    /\ hist[2].title = hist[1].title
    /\ hist[2].outcome = "skipped"
    /\ hist[2].attempts = 0

\* The titles of a sequence of photos.
TitlesIn(photos) == {photos[i].Title : i \in 1..Len(photos)}

\* C31: DeleteDupes never removes the last copy of a title: of every album of
\* the snapshot and every title in it, some photo of the album with that
\* title is asked no deletion, and every album of the remote holds the same
\* set of titles after the step of DeleteDupes as before it.
C31_DedupeKeepsLastCopy ==
    [][pc = "dedupe" =>
         /\ \A n \in DOMAIN fromFlickr :
               \A t \in TitlesIn(fromFlickr[n].Photos) :
                  IdsTitled(n, t) \ deleted' # {}
         /\ \A k \in 1..Len(remote) :
               TitlesIn(remote'[k].photos) = TitlesIn(remote[k].photos)]_vars

\* The ids of the photos the snapshot holds, in all its entries.
HeldIds ==
    UNION {{fromFlickr[n].Photos[i].ID : i \in 1..Len(fromFlickr[n].Photos)} :
              n \in DOMAIN fromFlickr}

\* When RetrieveFromFlickr has returned: one entry per title of the listing,
\* each with the id of the album listed last under the title and photos of
\* that album only.
CollapsedByTitle ==
    pc = "dedupe" =>
       /\ DOMAIN fromFlickr = {remote[k].title : k \in 1..Len(remote)}
       /\ Cardinality(DOMAIN fromFlickr)
             = Cardinality({remote[k].title : k \in 1..Len(remote)})
       /\ \A k \in 1..Len(remote) :
             IF LastTitled(k)
             THEN /\ fromFlickr[remote[k].title].ID = remote[k].id
                  /\ FirstPagesOf(fromFlickr[remote[k].title].Photos, k)
                  /\ readClean => SamePhotos(fromFlickr[remote[k].title].Photos,
                                             remote[k].photos)
             ELSE \A i \in 1..Len(remote[k].photos) :
                     remote[k].photos[i].ID \notin HeldIds

\* C32: remote albums that share a title collapse to one entry of the
\* snapshot.  The reader asks for the pages of every album listed, one album
\* after the other; when it stores an album whose title the snapshot already
\* holds, the entry takes the id and the photos of the album just read and
\* no entry is added; so when it returns, the snapshot has as many entries as
\* the remote has distinct titles, each with the id and the photos of the
\* album listed last under its title, and no photo of an album listed earlier
\* under the same title.
C32_SameTitleCollapses ==
    [][/\ pc = "page" =>
            /\ calls'.now = {"listAlbumPhotos"}
            /\ psIdx' = psIdx \/ (psIdx' = psIdx + 1 /\ AlbumStored)
            /\ (psIdx' = psIdx + 1 /\ items[psIdx].Title \in DOMAIN fromFlickr) =>
                  /\ DOMAIN fromFlickr' = DOMAIN fromFlickr
                  /\ \A n \in DOMAIN fromFlickr :
                        n # items[psIdx].Title => fromFlickr'[n] = fromFlickr[n]
       /\ CollapsedByTitle']_vars

\* C32 witness: the reader has returned from a remote of two albums with one
\* title, each with a photo, every page answered with the page; the snapshot
\* has one entry, with the id of the second album.
C32_Witness ==
    /\ pc = "dedupe"
    /\ readClean
    /\ Len(remote) = 2
    /\ remote[1].title = remote[2].title
    /\ remote[1].photos # <<>>
    /\ remote[2].photos # <<>>
    /\ Cardinality(DOMAIN fromFlickr) = 1
    /\ fromFlickr[remote[2].title].ID = remote[2].id

\* The files i and j of the walk were eligible and lie in different
\* directories that have one base name.
SameBaseName(i, j) ==
    /\ hist[i].dir # hist[j].dir
    /\ hist[i].dir # <<>>
    /\ hist[j].dir # <<>>
    /\ Last(hist[i].dir) = Last(hist[j].dir)
    /\ hist[i].outcome \in {"uploaded", "failed", "skipped"}
    /\ hist[j].outcome \in {"uploaded", "failed", "skipped"}

\* The albums titled t that the run created on the remote.
CreatedTitled(t) ==
    {k \in (Len(items) + 1)..Len(remote) : remote[k].title = t}

\* C33: the album of a file is the base name of its directory only.  Of two
\* files in different directories with one base name, once the first has
\* been uploaded the second is decided against the snapshot entry the first
\* left (the album is present, with the id the first upload returned and the
\* photo it added); when the second is uploaded too, every call for it has
\* that album id as its destination, it ends in that album and no album is
\* created for it.  The run never creates two albums with one title.
C33_AlbumIsBaseName ==
    /\ \A i \in 1..Len(hist), j \in 1..Len(hist) :
          (i < j /\ SameBaseName(i, j) /\ hist[i].outcome = "uploaded") =>
             /\ hist[j].present
             /\ hist[j].before.ID = hist[i].albumID
             /\ \E p \in 1..Len(hist[j].before.Photos) :
                   hist[j].before.Photos[p].ID = hist[i].photoID
             /\ hist[j].attempts > 0 =>
                   /\ hist[j].dests = {hist[i].albumID}
                   /\ hist[j].creates = 0
             /\ hist[j].outcome = "uploaded" =>
                   /\ hist[j].albumID = hist[i].albumID
                   /\ hist[j].appends >= 1
    /\ (pc = "walk" \/ pc = "upload" \/ pc = "done") =>
          \A t \in {remote[k].title : k \in 1..Len(remote)} :
             Cardinality(CreatedTitled(t)) <= 1

\* C33 witness: a file of lib/A was uploaded into an album created for it and
\* a file of lib/B/A was then appended to the same album; the remote has one
\* album titled A.
C33_Witness ==
    /\ Len(hist) = 2
    /\ hist[1].dir = <<"A">>
    /\ hist[2].dir = <<"B", "A">>
    /\ hist[1].outcome = "uploaded"
    /\ hist[1].creates >= 1
    /\ hist[2].outcome = "uploaded"
    /\ hist[2].appends >= 1
    /\ hist[2].albumID = hist[1].albumID
    /\ Cardinality({k \in 1..Len(remote) : remote[k].title = "A"}) = 1

\* The kinds of remote calls the run has made so far.
AllCalls == calls.past \cup calls.now

\* C34: the order of the fatal checks of Process.  A run with an empty
\* library path ends at its first step, with no remote call made.  The check
\* of the library's existence is made with the reader returned (the listing
\* answered and every album listed read) and, when the option is set, the
\* deletions of DeleteDupes asked, and before any upload, create or append
\* call; it makes no remote call itself and either ends the run or starts the
\* walk.  A run that ended fatally has made no upload, create or append call,
\* and takes no further step.
C34_FatalCheckOrder ==
    [][/\ config.PhotoLibraryPath = "" =>
             /\ pc = "start"
             /\ pc' = "fatal"
             /\ calls'.now \cup calls'.past = {}
       /\ pc = "stat" =>
             /\ reads.listed = "ok"
             /\ "listAlbums" \in AllCalls
             /\ psIdx = Len(items) + 1
             /\ DOMAIN fromFlickr = {items[k].Title : k \in 1..Len(items)}
             /\ config.DeleteDupes => deleted = Dupes
             /\ ~config.DeleteDupes => deleted = {}
             /\ AllCalls \cap WriteCalls = {}
             /\ calls'.now = {}
             /\ pc' = "walk" \/ pc' = "fatal"
       /\ (pc # "stat" /\ pc' = "fatal") =>
             (pc = "start" \/ pc = "list")
       /\ pc' = "fatal" =>
             (calls'.now \cup calls'.past) \cap WriteCalls = {}
       /\ pc # "fatal"]_vars

\* C34 witness: the library path is set but the library does not exist; the
\* run ended at the check of the path, after the reader had read the albums
\* and DeleteDupes had asked for a deletion.
C34_Witness ==
    /\ pc = "fatal"
    /\ config.PhotoLibraryPath # ""
    /\ reads.listed = "ok"
    /\ config.DeleteDupes
    /\ deleted # {}
    /\ "deletePhoto" \in AllCalls
    /\ "listAlbumPhotos" \in AllCalls
    /\ files # <<>>

\* The counts of the run stay within their budgets: the calls for the page
\* being read, the deletions asked, the UploadPhoto calls for a file.
WithinBudgets ==
    /\ nbAttempts <= RetrieveAttempts
    /\ reads.fetches <= RetrieveAttempts
    /\ Cardinality(deleted) <= Cardinality(HeldIds)
    /\ cur.attempts <= UploadAttempts + 1
    /\ \A i \in 1..Len(hist) :
          /\ hist[i].attempts <= UploadAttempts + 1
          /\ hist[i].outcome \in {"pruned", "ineligible", "skipped"} =>
                hist[i].attempts = 0

\* Every run ends: Process returns, or the process is ended by log.Fatal or
\* by the panic of the retry log.
RunEnds == <>(pc = "done" \/ pc = "fatal" \/ pc = "panic")

\* C35: against a remote of finitely many albums of finitely many pages and
\* a finite local tree, Process eventually returns (or ends the process with
\* log.Fatal on a misconfiguration or a failed listing); meanwhile no page
\* is fetched more than RetrieveAttempts + 1 times in a visit, no more
\* deletions are asked than the snapshot has photos, and UploadPhoto is
\* called at most UploadAttempts + 1 times for a file.
C35_ProcessReturns ==
    /\ <>(pc = "done" \/ pc = "fatal")
    /\ []WithinBudgets

=============================================================================
